---- MODULE Spec2Model ----
(***************************************************************************)
(* rxjs-spy: the notification dispatcher of SpyCore.coreSubscribe_         *)
(* (notify_, the pre-let and post-let subscribers, the unsubscribe         *)
(* overrides) and the SnapshotPlugin (per-subscription snapshot records,   *)
(* bounded value history, snapshotAll).                                    *)
(*                                                                         *)
(* The program is single-threaded; re-entrancy is modelled by an explicit  *)
(* call stack of notify_ activations.  One activation runs                 *)
(*     ++tick_; plugins_.forEach(before); block(); plugins_.forEach(after) *)
(* one callback (or one half of the block) per step, so that the host and  *)
(* the plugins can call back into the spy between the steps.               *)
(***************************************************************************)
EXTENDS Integers, Sequences, FiniteSets, TLC

\* ------------------------------------------------------------------ bounds
MaxSubs  == 2        \* coreSubscribe_ calls (subscription refs)
MaxTick  == 4        \* notifications dispatched in the dispatcher specification
MaxDepth == 2        \* notify_ activations on the call stack
MaxThrows == 1       \* callbacks of the user plugin that throw
MaxPlugs == 1        \* plug and unplug calls
MaxValueTick == 8    \* notifications dispatched in the value-history specification
MaxSnapshotTick == 3 \* notifications dispatched in the snapshot specification
MaxSnapshots == 2    \* snapshotAll calls
MaxWalkRefs == 4     \* subscriptions in the graph of the traversal specification
MaxSpies == 3        \* SpyCore objects constructed or attempted
MaxIgnores == 2      \* ignore blocks in progress
MaxBypassed == 1     \* subscribe calls that the first instance does not instrument
MaxTeardowns == 2    \* teardown calls
MaxSpyTick == 2      \* notifications dispatched in the instance specification
MaxLetTick == 4      \* notifications dispatched in the rewiring specification
MaxLetPlugs == 3     \* plug and unplug calls in the rewiring specification
MaxSharedTick == 6   \* notifications dispatched in the shared-source specification

\* --------------------------------------------------------------- constants
Refs        == 1 .. MaxSubs
Observables == {1, 2}
Subscribers == {1, 2}
Spies       == 1 .. MaxSpies
Undefined   == 0     \* JavaScript undefined, where a ref or a key is expected

GraphP    == "graph"       \* GraphPlugin
SnapshotP == "snapshot"    \* SnapshotPlugin
ProbeP    == "probe"       \* a user plugin implementing the Plugin interface
LetP      == "letP"        \* a plugin whose select(ref) returns a selector
LetQ      == "letQ"        \* another one, with another selector
Plugins   == {GraphP, SnapshotP, ProbeP, LetP, LetQ}

Kinds == {"subscribe", "next", "error", "complete", "unsubscribe"}

NoRef == [defined |-> FALSE]   \* ref[snapshotRefSymbol] not set
NoSnapshot == [taken |-> FALSE]
NoWalk == [done |-> FALSE]
NoChain == [id |-> 0, selectors |-> << >>]   \* postLetSubscription undefined
NoLet == [ preLetSubject |-> FALSE, postLetSubscription |-> NoChain,
           observers |-> << >>, pluginsSubscription |-> FALSE, made |-> 0 ]

VARIABLES
    tick_,            \* SpyCore.tick_
    plugins_,         \* SpyCore.plugins_, in registration order
    keptValues_,      \* SnapshotPlugin.keptValues_
    sentinel_,        \* SnapshotPlugin.sentinel_ is set
    ref,              \* per subscription: the SubscriptionRef
    preLetObserver,   \* per subscription: completed, errored, unsubscribed
    postLetObserver,  \* per subscription: unsubscribed
    host,             \* per subscription: the rxjs Subscriber state of the two subscribers
    snapshotRef,      \* per subscription: the SnapshotRef, or NoRef
    graphRef,         \* per subscription: the GraphRef (sink and kind of edge)
    stack,            \* the notify_ activations in progress, innermost last
    exc,              \* an exception is propagating up the call stack
    since,            \* a snapshot the host keeps: snapshotAll()
    result,           \* what snapshotAll({since}) returned last
    walk,             \* what getSubscriptionRefs_ returned last, and the calls it made
    spy_,             \* SpyCore.spy_ (static): the instance, or Undefined
    subscribe,        \* Observable.prototype.subscribe: which function it is
    spies,            \* per SpyCore object: none, rejected, active (teardown_ set), tornDown
    ignoring,         \* the instances whose ignore block is in progress, innermost last
    lets,             \* per subscription: preLetSubject, postLetSubscription, the
                      \* subject's observers, pluginsSubscription
    hist              \* history: counters of what was dispatched

vars == << tick_, plugins_, keptValues_, sentinel_, ref, preLetObserver,
           postLetObserver, host, snapshotRef, graphRef, stack, exc, since, result,
           walk, spy_, subscribe, spies, ignoring, lets, hist >>

\* the variables that only the operations outside the dispatcher and the snapshot
\* plugin's callbacks write
statics == << walk, spy_, subscribe, spies, ignoring >>
rest == << statics, lets >>

\* ----------------------------------------------------------------- helpers
Top == stack[Len(stack)]

Idle     == stack = << >> /\ ~exc
InAction == ~exc /\ stack # << >> /\ Top.phase = "action"
\* the callback of the user plugin that was called last has not returned yet
InProbe  == /\ ~exc /\ stack # << >>
            /\ Top.phase \in {"before", "after"}
            /\ Top.i > 1 /\ Top.arr[Top.i - 1] = ProbeP
HostCtx  == Idle \/ InAction
AnyCtx   == HostCtx \/ InProbe

Created == {r \in Refs : ref[r].created}

\* identify(ref): refs are numbered in creation order
NextRef == Cardinality(Created) + 1

Filter(seq, keep(_)) == SelectSeq(seq, keep)

Min(a, b) == IF a < b THEN a ELSE b
Max(a, b) == IF a > b THEN a ELSE b

\* ------------------------------------------------- SnapshotPlugin callbacks
\* mutant: the entries are removed from the end of the array
SpliceEnd(values, count) ==
    SubSeq(values, 1, Len(values) - Min(count, Len(values)))

\* Array.prototype.splice(0, count) for count > 0: what is left of the array
Splice0(values, count) ==
    SubSeq(values, Min(count, Len(values)) + 1, Len(values))

\* SnapshotPlugin.beforeSubscribe: the record set on the ref
NewSnapshotRef(tick) ==
    [ defined |-> TRUE, complete |-> FALSE, error |-> Undefined, tick |-> tick,
      unsubscribed |-> FALSE, values |-> << >>, valuesFlushed |-> 0 ]

\* SnapshotPlugin.beforeNext
BeforeNext(sr, tick, value, keptValues) ==
    LET pushed == Append(sr.values, [tick |-> tick, value |-> value])
        count  == Len(pushed) - keptValues
    IN  IF count > 0
        THEN [sr EXCEPT !.tick = tick,
                        !.values = Splice0(pushed, count),
                        !.valuesFlushed = @ + count]
        ELSE [sr EXCEPT !.tick = tick, !.values = pushed]

\* SnapshotPlugin.beforeComplete
BeforeComplete(sr, tick) == [sr EXCEPT !.tick = tick, !.complete = TRUE]

\* SnapshotPlugin.beforeError
BeforeError(sr, tick, error) == [sr EXCEPT !.tick = tick, !.error = error]

\* mutant: afterUnsubscribe stamps the record with the tick after the current one
AfterUnsubscribeAhead(sr, tick) == [sr EXCEPT !.tick = tick + 1, !.unsubscribed = TRUE]

\* SnapshotPlugin.afterUnsubscribe
AfterUnsubscribe(sr, tick) == [sr EXCEPT !.tick = tick, !.unsubscribed = TRUE]

\* mutant: the record is marked unsubscribed in beforeUnsubscribe
SnapshotCallbackEarly(sr, phase, kind, value, tick, keptValues) ==
    CASE phase = "before" /\ kind = "subscribe"   -> NewSnapshotRef(tick)
      [] phase = "before" /\ kind = "next"        -> BeforeNext(sr, tick, value, keptValues)
      [] phase = "before" /\ kind = "complete"    -> BeforeComplete(sr, tick)
      [] phase = "before" /\ kind = "error"       -> BeforeError(sr, tick, value)
      [] phase = "before" /\ kind = "unsubscribe" -> AfterUnsubscribe(sr, tick)
      [] OTHER -> sr

\* The snapshot record of ref r after SnapshotPlugin's callback for one phase of a
\* notification; BasePlugin's callbacks (the ones SnapshotPlugin does not
\* override) do nothing.  spy.tick is read when the callback runs.
SnapshotCallback(sr, phase, kind, value, tick, keptValues) ==
    CASE phase = "before" /\ kind = "subscribe"   -> NewSnapshotRef(tick)
      [] phase = "before" /\ kind = "next"        -> BeforeNext(sr, tick, value, keptValues)
      [] phase = "before" /\ kind = "complete"    -> BeforeComplete(sr, tick)
      [] phase = "before" /\ kind = "error"       -> BeforeError(sr, tick, value)
      [] phase = "after"  /\ kind = "unsubscribe" -> AfterUnsubscribe(sr, tick)
      [] OTHER -> sr

\* The callback dereferences getSnapshotRef(ref): a TypeError when it is undefined
SnapshotCallbackThrows(sr, phase, kind) ==
    /\ ~sr.defined
    /\ \/ phase = "before" /\ kind \in {"next", "complete", "error"}
       \/ phase = "after" /\ kind = "unsubscribe"

\* ---------------------------------------------------- GraphPlugin (graph-plugin.ts)
NoGraphRef == [defined |-> FALSE]

\* the plugin's stack of notifications in progress: the activations whose
\* before-callback it has received and whose after-callback it has not
GraphNotifications(stk) ==
    Filter(stk, LAMBDA f : /\ \E k \in 1 .. Len(f.trace) : f.trace[k] = << "B", GraphP >>
                           /\ \A k \in 1 .. Len(f.trace) : f.trace[k] # << "A", GraphP >>)

\* the nearest enclosing subscribe notification, or Undefined
RECURSIVE EstablishingRef(_)
EstablishingRef(ns) ==
    IF ns = << >> THEN Undefined
    ELSE IF ns[Len(ns)].kind = "subscribe" THEN ns[Len(ns)].ref
    ELSE EstablishingRef(SubSeq(ns, 1, Len(ns) - 1))

\* GraphPlugin.beforeSubscribe: the node of a new subscription, linked as a merge
\* of the subscription whose next is being delivered, else as a source of the
\* subscription being established, else under the sentinel
NewGraphRef(g, enclosing) ==
    LET ns   == GraphNotifications(enclosing)
        sink == IF ns # << >> /\ ns[Len(ns)].kind = "next"
                THEN ns[Len(ns)].ref ELSE EstablishingRef(ns)
        edge == IF sink = Undefined THEN "root"
                ELSE IF ns[Len(ns)].kind = "next" THEN "merge" ELSE "source"
    IN  IF sink = Undefined \/ ~g[sink].defined
        THEN [defined |-> TRUE, sink |-> Undefined, rootSink |-> Undefined, edge |-> "root"]
        ELSE [defined |-> TRUE, sink |-> sink, edge |-> edge,
              rootSink |-> IF g[sink].rootSink # Undefined THEN g[sink].rootSink ELSE sink]

\* ------------------------------------------------------------------ notify_
\* One activation of notify_ (part_000:347-352).  arr is the array the running
\* forEach iterates: Array.prototype.forEach visits the elements the array had
\* when it was called, plug pushes at the end and unplug replaces plugins_ by a
\* new array, so the running loop sees the list as it was when the loop began.
\* trace, regB and regA are history: the callbacks made, and plugins_ as it was
\* when each forEach began.
Frame(kind, r, value, cont, tick, plugins) ==
    [ kind |-> kind, ref |-> r, value |-> value, cont |-> cont,
      phase |-> "before", i |-> 1, arr |-> plugins, stamp |-> tick,
      trace |-> << >>, regB |-> plugins, regA |-> << >>, status |-> "running" ]

\* mutant: the tick is not advanced
IncrementNot(tick) == tick

\* ++spy_.tick_
Increment(tick) == tick + 1

\* notify_ is entered: the tick is incremented and plugins_.forEach(before) begins
Notify(stk, kind, r, value, cont, tick) ==
    Append(stk, Frame(kind, r, value, cont, tick, plugins_))


\* mutant: a step of the innermost activation is applied to the outermost one
SetOutermost(stk, f) == [stk EXCEPT ![1] = f]

SetTop(stk, f) == [stk EXCEPT ![Len(stk)] = f]
Pop(stk) == SubSeq(stk, 1, Len(stk) - 1)

\* ------------------------------------------------- SnapshotPlugin.snapshotAll
InSeq(x, seq) == \E k \in 1 .. Len(seq) : seq[k] = x
Range(seq) == {seq[k] : k \in 1 .. Len(seq)}
IndexOf(x, seq) == CHOOSE k \in 1 .. Len(seq) : seq[k] = x
SetMin(S) == CHOOSE x \in S : \A y \in S : x <= y
SetMax(S) == CHOOSE x \in S : \A y \in S : x >= y

RECURSIVE Ascending(_)
Ascending(S) == IF S = {} THEN << >> ELSE << SetMin(S) >> \o Ascending(S \ {SetMin(S)})

\* graphRef.merges / graphRef.sources of a ref and sentinel.sources, in the
\* order the refs were pushed, which is the order they were created in
Edges(r, edge) ==
    Ascending({c \in DOMAIN graphRef : /\ graphRef[c].defined /\ graphRef[c].sink = r
                                       /\ graphRef[c].edge = edge})
SentinelSources ==
    Ascending({c \in DOMAIN graphRef : graphRef[c].defined /\ graphRef[c].edge = "root"})

\* mutant: the merges of a subscription are not followed
RECURSIVE AddSourcesOnly(_, _), AddEachSourcesOnly(_, _)
AddSourcesOnly(r, map) ==
    AddEachSourcesOnly(Edges(r, "source"), IF InSeq(r, map) THEN map ELSE Append(map, r))
AddEachSourcesOnly(refs, map) ==
    IF refs = << >> THEN map
    ELSE AddEachSourcesOnly(Tail(refs), AddSourcesOnly(Head(refs), map))

\* SnapshotPlugin.addSubscriptionRefs_: map.set(ref, true), then the merges, then
\* the sources; map is the Map's keys in insertion order
RECURSIVE AddSubscriptionRefs(_, _), AddEach(_, _)
AddSubscriptionRefs(r, map) ==
    AddEach(Edges(r, "source"),
            AddEach(Edges(r, "merge"), IF InSeq(r, map) THEN map ELSE Append(map, r)))
AddEach(refs, map) ==
    IF refs = << >> THEN map
    ELSE AddEach(Tail(refs), AddSubscriptionRefs(Head(refs), map))

\* SnapshotPlugin.getSubscriptionRefs_
GetSubscriptionRefs == IF sentinel_ THEN AddEach(SentinelSources, << >>) ELSE << >>

\* the calls of addSubscriptionRefs_ that one getSubscriptionRefs_ makes, in order:
\* the ref of each call
RECURSIVE Calls(_), CallsEach(_)
Calls(r) == << r >> \o CallsEach(Edges(r, "merge")) \o CallsEach(Edges(r, "source"))
CallsEach(refs) ==
    IF refs = << >> THEN << >> ELSE Calls(Head(refs)) \o CallsEach(Tail(refs))

GetSubscriptionRefsCalls == IF sentinel_ THEN CallsEach(SentinelSources) ELSE << >>

\* ref.subscription as a Map key: undefined until the subscribe block has returned
Key(r) == IF ref[r].subscription THEN r ELSE Undefined

\* Map.prototype.get
Get(map, key) == IF key \in DOMAIN map THEN map[key] ELSE Undefined

\* a Map filled by map.set(Key(r), <the object made for r>) for the refs of a
\* list in order: a later set of the same key replaces the earlier value
MapOf(refs) ==
    [key \in {Key(r) : r \in Range(refs)} |->
        refs[SetMax({k \in 1 .. Len(refs) : Key(refs[k]) = key})]]

\* values.push(...more) for each array of a list in turn
RECURSIVE Concat(_)
Concat(arrays) ==
    IF arrays = << >> THEN << >> ELSE Head(arrays) \o Concat(Tail(arrays))

\* valuesFlushed += more for each number of a list in turn
RECURSIVE Sum(_)
Sum(numbers) ==
    IF numbers = << >> THEN 0 ELSE Head(numbers) + Sum(Tail(numbers))

\* Array.prototype.sort((a, b) => a.tick - b.tick), which is stable
RECURSIVE InsertByTick(_, _), SortByTick(_)
InsertByTick(sorted, v) ==
    IF sorted = << >> \/ sorted[Len(sorted)].tick <= v.tick THEN Append(sorted, v)
    ELSE Append(InsertByTick(SubSeq(sorted, 1, Len(sorted) - 1), v), sorted[Len(sorted)])
SortByTick(values) ==
    IF values = << >> THEN << >>
    ELSE InsertByTick(SortByTick(SubSeq(values, 1, Len(values) - 1)), values[Len(values)])

\* mutant: an entry whose tick equals since.tick is not deleted
DeletedBelow(tick, hasSince, sinceTick) == hasSince /\ tick < sinceTick

\* if (since !== undefined) ... if (value.tick <= since.tick) map.delete(key)
Deleted(tick, hasSince, sinceTick) == hasSince /\ tick <= sinceTick

\* mutant: the subscriber snapshot is given the values array of its first
\* subscription's record instead of an array of its own
LiveArray(members, items) == [shared |-> members[1], items |-> items]

\* subscriberSnapshot.values: a new array ([]) that the entries of the members'
\* records are pushed into; it shares no array with a record
OwnArray(members, items) == [shared |-> Undefined, items |-> items]

\* the entries a reader finds in an array kept in a snapshot
ReadArray(a) == IF a.shared = Undefined THEN a.items ELSE snapshotRef[a.shared].values

\* snapshotAll reads the snapshot record of every ref it collects
CanSnapshot == \A r \in Range(GetSubscriptionRefs) : snapshotRef[r].defined

\* SnapshotPlugin.snapshotAll({ since }).  A SubscriptionSnapshot object is named
\* by the ref it was made for; objs holds every one made by the call, the three
\* top-level maps hold the entries left after the since filter.
SnapshotAll(hasSince, sinceTick) ==
    LET refs == GetSubscriptionRefs
        made == Range(refs)
        subscriptions == MapOf(refs)
        \* the object the re-link pass updates for ref r
        Linked(r) == subscriptions[Key(r)]
        SnapshotOf(x) ==
            LET writers == {r \in made : Linked(r) = x}
                sinks   == {r \in writers : graphRef[r].sink # Undefined}
                lastW   == refs[SetMax({IndexOf(r, refs) : r \in sinks})]
                EdgeMap(edge) ==
                    [key \in {Key(c) : c \in UNION {Range(Edges(r, edge)) : r \in writers}}
                        |-> Get(subscriptions, key)]
            IN  [ complete |-> snapshotRef[x].complete,
                  error |-> snapshotRef[x].error,
                  tick |-> snapshotRef[x].tick,
                  unsubscribed |-> snapshotRef[x].unsubscribed,
                  observable |-> ref[x].observable,
                  subscriber |-> ref[x].subscriber,
                  subscription |-> Key(x),
                  sink |-> IF sinks = {} THEN Undefined
                           ELSE Get(subscriptions, Key(graphRef[lastW].sink)),
                  rootSink |-> IF sinks = {} THEN Undefined
                               ELSE Get(subscriptions, Key(graphRef[lastW].rootSink)),
                  merges |-> EdgeMap("merge"),
                  sources |-> EdgeMap("source") ]
        objs == [x \in made |-> SnapshotOf(x)]
        Members(field, id) == SelectSeq(refs, LAMBDA r : ref[r][field] = id)
        TickOf(members) == SetMax({snapshotRef[r].tick : r \in Range(members)})
        subscribers ==
            [b \in {ref[r].subscriber : r \in made} |->
                LET members == Members("subscriber", b)
                IN  [ subscriptions |-> MapOf(members),
                      tick |-> TickOf(members),
                      values |-> OwnArray(members, SortByTick(Concat(
                          [k \in 1 .. Len(members) |-> snapshotRef[members[k]].values]))),
                      valuesFlushed |-> Sum(
                          [k \in 1 .. Len(members) |-> snapshotRef[members[k]].valuesFlushed]) ]]
        observables ==
            [o \in {ref[r].observable : r \in made} |->
                LET members == Members("observable", o)
                IN  [ subscriptions |-> MapOf(members), tick |-> TickOf(members) ]]
        keptObservables ==
            {o \in DOMAIN observables : ~Deleted(observables[o].tick, hasSince, sinceTick)}
        keptSubscribers ==
            {b \in DOMAIN subscribers : ~Deleted(subscribers[b].tick, hasSince, sinceTick)}
        keptSubscriptions ==
            {k \in DOMAIN subscriptions :
                ~Deleted(objs[subscriptions[k]].tick, hasSince, sinceTick)}
    IN  [ taken |-> TRUE,
          objs |-> objs,
          observables |-> [o \in keptObservables |-> observables[o]],
          subscribers |-> [b \in keptSubscribers |-> subscribers[b]],
          subscriptions |-> [k \in keptSubscriptions |-> subscriptions[k]],
          tick |-> tick_ ]

\* ------------------------------------------------------- preLetObserver.let
\* plugin.select(ref) returns a selector
Selects(p) == p \in {LetP, LetQ}

\* plugins.map((plugin) => plugin.select(ref)).filter(Boolean)
Selectors(plugins) == SelectSeq(plugins, Selects)

\* what the selector of a plugin makes of a value: the selectors are
\* synchronous one-to-one operators that do not commute
Select(p, value) == IF p = LetP THEN value + 10 ELSE value * 2

\* selectors.forEach(selector => source = source.let(selector)): the value that
\* leaves the chain for a value that enters it
RECURSIVE Apply(_, _)
Apply(selectors, value) ==
    IF selectors = << >> THEN value
    ELSE Apply(Tail(selectors), Select(Head(selectors), value))

\* subscription.unsubscribe() of a chain subscription: the subject drops it
Without(observers, chain) == SelectSeq(observers, LAMBDA c : c # chain)

\* mutant: the chain is rebuilt without unsubscribing the one in place
LetKeeping(l, plugins) ==
    LET selectors == Selectors(plugins)
        chain == [id |-> l.made + 1, selectors |-> selectors]
    IN  IF selectors # << >>
        THEN [l EXCEPT !.preLetSubject = TRUE,
                       !.observers = Append(l.observers, chain),
                       !.postLetSubscription = chain,
                       !.made = @ + 1]
        ELSE IF l.postLetSubscription # NoChain
             THEN [l EXCEPT !.observers = << >>,
                            !.postLetSubscription = NoChain,
                            !.preLetSubject = FALSE]
             ELSE l

\* preLetObserver.let(plugins) (part_000:459-485); a chain subscription is named
\* by the number of the let call that made it.  Without a subject there are no
\* observers.
Let(l, plugins) ==
    LET selectors == Selectors(plugins)
        chain == [id |-> l.made + 1, selectors |-> selectors]
    IN  IF selectors # << >>
        THEN [l EXCEPT !.preLetSubject = TRUE,
                       !.observers = Append(Without(l.observers, l.postLetSubscription), chain),
                       !.postLetSubscription = chain,
                       !.made = @ + 1]
        ELSE IF l.postLetSubscription # NoChain
             THEN [l EXCEPT !.observers = << >>,
                            !.postLetSubscription = NoChain,
                            !.preLetSubject = FALSE]
             ELSE l

\* pluginsSubject_.next(plugins): every subscribed pluginsSubscription calls let
LetAll(ls, plugins) ==
    [r \in Refs |-> IF ls[r].pluginsSubscription THEN Let(ls[r], plugins) ELSE ls[r]]

\* let calls spy_.ignore to subscribe the chain, which leaves SpyCore.spy_ set
\* to the instance (part_000:473, 156-158)
IgnoredIn(ls, plugins, spy) ==
    IF Selectors(plugins) # << >> /\ \E r \in Refs : ls[r].pluginsSubscription
    THEN 1 ELSE spy

\* preLetSubscriber.unsubscribe drops the chain subscription (part_000:520-523)
Detach(l) ==
    IF l.postLetSubscription # NoChain
    THEN [l EXCEPT !.observers = Without(@, l.postLetSubscription),
                   !.postLetSubscription = NoChain]
    ELSE l

\* -------------------------------------------------------------------- Init
NewRef(o, b) ==
    [ created |-> TRUE, observable |-> o, subscriber |-> b,
      subscription |-> FALSE, unsubscribed |-> FALSE ]

\* everything but the graph
InitSpy(plugins, keptValues) ==
    /\ tick_ = 0
    /\ plugins_ = plugins
    /\ keptValues_ = keptValues
    /\ ref = [r \in Refs |-> [ created |-> FALSE, observable |-> Undefined,
                               subscriber |-> Undefined, subscription |-> FALSE,
                               unsubscribed |-> FALSE ]]
    /\ preLetObserver = [r \in Refs |-> [ completed |-> FALSE, errored |-> FALSE,
                                          unsubscribed |-> FALSE ]]
    /\ postLetObserver = [r \in Refs |-> [ unsubscribed |-> FALSE ]]
    /\ host = [r \in Refs |-> [ started |-> FALSE, preStopped |-> FALSE,
                                postStopped |-> FALSE ]]
    /\ snapshotRef = [r \in Refs |-> NoRef]
    /\ stack = << >>
    /\ exc = FALSE
    /\ since = NoSnapshot
    /\ result = NoSnapshot
    /\ walk = NoWalk
    \* the constructor of the first instance has run (part_000:69-70)
    /\ spy_ = 1
    /\ subscribe = "coreSubscribe_"
    /\ spies = [i \in Spies |-> IF i = 1 THEN "active" ELSE "none"]
    /\ ignoring = << >>
    /\ lets = [r \in Refs |-> NoLet]
    /\ hist = [ nexts |-> [r \in Refs |-> 0], unsubs |-> [r \in Refs |-> 0],
                notifs |-> 0, throws |-> 0, plugs |-> 0, snaps |-> 0,
                bypassed |-> 0, teardowns |-> 0,
                \* what the source handed to the pre-let subscriber and was
                \* dispatched, and what the blocks handed to the subscriber
                emitted |-> [r \in Refs |-> << >>],
                delivered |-> [r \in Refs |-> << >>] ]

InitWith(plugins, keptValues) ==
    /\ InitSpy(plugins, keptValues)
    /\ sentinel_ = FALSE
    /\ graphRef = [r \in Refs |-> NoGraphRef]

\* SpyCore's constructor: defaultPlugins === false gives no plugins, otherwise the
\* default plugins, of which GraphPlugin and SnapshotPlugin are modelled
DefaultPlugins == << GraphP, SnapshotP >>
DefaultKeptValues == 4

Init == \E plugins \in {<< >>, DefaultPlugins} : InitWith(plugins, DefaultKeptValues)

\* --------------------------------------------------------------- the host
\* Observable.prototype.subscribe is called: SpyCore.coreSubscribe_ builds the ref
\* and the two subscribers and dispatches the subscribe notification
Subscribe(o, b) ==
    /\ HostCtx
    \* the patched entry point finds the instance in SpyCore.spy_ (part_000:343-346)
    /\ subscribe = "coreSubscribe_" /\ spy_ = 1
    /\ NextRef \in Refs
    /\ ref' = [ref EXCEPT ![NextRef] = NewRef(o, b)]
    /\ tick_' = Increment(tick_)
    \* pluginsSubject_ is a BehaviorSubject: the new pluginsSubscription is handed
    \* the plugins at once (part_000:508-510)
    /\ lets' = [lets EXCEPT ![NextRef] =
                   Let([NoLet EXCEPT !.pluginsSubscription = TRUE], plugins_)]
    /\ stack' = Notify(stack, "subscribe", NextRef, Undefined, "none", tick_')
    /\ hist' = [hist EXCEPT !.notifs = @ + 1]
    /\ UNCHANGED << plugins_, keptValues_, sentinel_, preLetObserver, postLetObserver,
                    host, snapshotRef, graphRef, exc >>
    /\ UNCHANGED << since, result >>
    /\ UNCHANGED statics

\* The source calls preLetSubscriber.next(value): preLetObserver.next hands it to
\* postLetSubscriber.next, directly or through preLetSubject and the chain
\* subscribed to it (part_000:487-494); postLetSubscriber.next calls
\* postLetObserver.next unless it is stopped.  A subject hands a value to each
\* of its observers; the first is followed here, and C16 has that there is no
\* second.
SourceNext(r) ==
    /\ HostCtx
    /\ ref[r].created /\ host[r].started
    /\ ~host[r].preStopped /\ ~host[r].postStopped
    /\ IF lets[r].preLetSubject /\ lets[r].observers = << >>
       THEN /\ hist' = [hist EXCEPT !.nexts[r] = @ + 1]
            /\ UNCHANGED << tick_, stack >>
       ELSE LET value == IF lets[r].preLetSubject
                         THEN Apply(lets[r].observers[1].selectors, hist.nexts[r] + 1)
                         ELSE hist.nexts[r] + 1
            IN  /\ tick_' = Increment(tick_)
                /\ stack' = Notify(stack, "next", r, value, "none", tick_')
                /\ hist' = [hist EXCEPT
                               !.nexts[r] = @ + 1, !.notifs = @ + 1,
                               !.emitted[r] = Append(@, << "next", hist.nexts[r] + 1 >>)]
    /\ UNCHANGED << plugins_, keptValues_, sentinel_, ref, preLetObserver,
                    postLetObserver, host, snapshotRef, graphRef, exc >>
    /\ UNCHANGED << since, result >>
    /\ UNCHANGED rest

\* The source calls preLetSubscriber.complete() or .error(e): preLetObserver
\* records it and hands it to postLetSubscriber, which (unless stopped) stops and
\* calls postLetObserver.complete / .error, and unsubscribes itself afterwards
SourceEnd(r, kind) ==
    /\ HostCtx
    /\ ref[r].created /\ host[r].started /\ ~host[r].preStopped
    \* without a preLetSubject (part_000:437-441, 450-454)
    /\ ~lets[r].preLetSubject
    /\ preLetObserver' = [preLetObserver EXCEPT
                            ![r].completed = @ \/ kind = "complete",
                            ![r].errored = @ \/ kind = "error"]
    /\ host' = [host EXCEPT ![r].preStopped = TRUE, ![r].postStopped = TRUE]
    /\ IF host[r].postStopped
       THEN UNCHANGED << tick_, stack, hist >>
       ELSE /\ tick_' = Increment(tick_)
            /\ stack' = Notify(stack, kind, r, IF kind = "error" THEN 1 ELSE Undefined,
                               "postUnsubscribe", tick_')
            /\ hist' = [hist EXCEPT
                           !.notifs = @ + 1,
                           !.emitted[r] = Append(@, << kind, IF kind = "error" THEN 1
                                                             ELSE Undefined >>)]
    /\ UNCHANGED << plugins_, keptValues_, sentinel_, ref, postLetObserver,
                    snapshotRef, graphRef, exc >>
    /\ UNCHANGED << since, result >>
    /\ UNCHANGED rest

SourceComplete(r) == SourceEnd(r, "complete")
SourceError(r) == SourceEnd(r, "error")

\* mutant: postLetSubscriber.unsubscribe without its unsubscribed flag
UnsubscribeUnguarded(r) ==
    /\ AnyCtx
    /\ ref[r].created
    /\ preLetObserver' = [preLetObserver EXCEPT ![r].unsubscribed = TRUE]
    /\ postLetObserver' = [postLetObserver EXCEPT ![r].unsubscribed = TRUE]
    /\ lets' = [lets EXCEPT ![r] = Detach(@)]
    /\ tick_' = Increment(tick_)
    /\ stack' = Notify(stack, "unsubscribe", r, Undefined, "preLetUnsubscribe", tick_')
    /\ hist' = [hist EXCEPT !.notifs = @ + 1, !.unsubs[r] = @ + 1]
    /\ UNCHANGED << plugins_, keptValues_, sentinel_, ref, snapshotRef, graphRef,
                    exc, host >>
    /\ UNCHANGED << since, result >>
    /\ UNCHANGED statics

\* preLetSubscriber.unsubscribe (part_000:513-528), reached from the returned
\* subscription and from the subscriber the pre-let subscriber was added to; it
\* calls postLetSubscriber.unsubscribe (part_000:532-551)
Unsubscribe(r) ==
    /\ AnyCtx
    /\ ref[r].created
    /\ lets' = IF /\ ~preLetObserver[r].unsubscribed
                  /\ ~preLetObserver[r].completed /\ ~preLetObserver[r].errored
               THEN [lets EXCEPT ![r] = Detach(@)]
               ELSE lets
    /\ IF ~preLetObserver[r].unsubscribed
       THEN /\ preLetObserver' = [preLetObserver EXCEPT ![r].unsubscribed = TRUE]
            /\ IF ~preLetObserver[r].completed /\ ~preLetObserver[r].errored
               THEN IF ~postLetObserver[r].unsubscribed
                    THEN /\ postLetObserver' = [postLetObserver EXCEPT ![r].unsubscribed = TRUE]
                         /\ tick_' = Increment(tick_)
                         /\ stack' = Notify(stack, "unsubscribe", r, Undefined,
                                            "preLetUnsubscribe", tick_')
                         /\ hist' = [hist EXCEPT !.notifs = @ + 1, !.unsubs[r] = @ + 1]
                         /\ UNCHANGED host
                    ELSE /\ host' = [host EXCEPT ![r].postStopped = TRUE,
                                                 ![r].preStopped = TRUE]
                         /\ UNCHANGED << postLetObserver, tick_, stack, hist >>
               ELSE /\ host' = [host EXCEPT ![r].preStopped = TRUE]
                    /\ UNCHANGED << postLetObserver, tick_, stack, hist >>
       ELSE /\ host' = [host EXCEPT ![r].preStopped = TRUE]
            /\ UNCHANGED << preLetObserver, postLetObserver, tick_, stack, hist >>
    /\ UNCHANGED << plugins_, keptValues_, sentinel_, ref, snapshotRef, graphRef,
                    exc >>
    /\ UNCHANGED << since, result >>
    /\ UNCHANGED statics

\* ------------------------------------------------------- the steps of notify_
Ended(f, status) == [f EXCEPT !.status = status]

\* plugins_.forEach(before) / plugins_.forEach(after): the next callback is called
\* and returns
Callback ==
    /\ ~exc /\ stack # << >>
    /\ Top.phase \in {"before", "after"}
    /\ Top.i <= Len(Top.arr)
    /\ LET f == Top
           p == f.arr[f.i]
           r == f.ref
           g == IF p = GraphP /\ f.phase = "before" /\ f.kind = "subscribe"
                THEN [graphRef EXCEPT ![r] = NewGraphRef(graphRef, Pop(stack))]
                ELSE graphRef
       IN  /\ ~(p = SnapshotP /\ SnapshotCallbackThrows(snapshotRef[r], f.phase, f.kind))
           /\ stack' = SetTop(stack, [f EXCEPT
                          !.i = @ + 1,
                          !.trace = Append(@, << IF f.phase = "before" THEN "B" ELSE "A", p >>)])
           /\ graphRef' = g
           /\ snapshotRef' =
                 IF p = SnapshotP
                 THEN [snapshotRef EXCEPT ![r] =
                          SnapshotCallback(@, f.phase, f.kind, f.value, tick_, keptValues_)]
                 ELSE snapshotRef
           \* SnapshotPlugin.beforeSubscribe: sentinel_ = getGraphRef(ref).sentinel
           /\ sentinel_' = (sentinel_ \/ ( /\ p = SnapshotP /\ f.phase = "before"
                                           /\ f.kind = "subscribe" /\ graphRef[r].defined ))
    /\ UNCHANGED << tick_, plugins_, keptValues_, ref, preLetObserver, postLetObserver,
                    host, exc, hist >>
    /\ UNCHANGED << since, result >>
    /\ UNCHANGED rest

\* The callback throws: forEach is abandoned and the exception leaves notify_,
\* which has no handler.  SnapshotPlugin's callback throws when the ref has no
\* snapshot record; a user plugin's callback may throw whenever it is called.
CallbackThrows ==
    /\ ~exc /\ stack # << >>
    /\ Top.phase \in {"before", "after"}
    /\ Top.i <= Len(Top.arr)
    /\ LET f == Top
           p == f.arr[f.i]
           g == [f EXCEPT !.i = @ + 1,
                          !.trace = Append(@, << IF f.phase = "before" THEN "B" ELSE "A", p >>)]
       IN  /\ \/ p = SnapshotP /\ SnapshotCallbackThrows(snapshotRef[f.ref], f.phase, f.kind)
              \/ p = ProbeP
           /\ stack' = SetTop(stack, Ended(g, "thrown"))
           /\ hist' = [hist EXCEPT !.throws = @ + IF p = ProbeP THEN 1 ELSE 0]
    /\ exc' = TRUE
    /\ UNCHANGED << tick_, plugins_, keptValues_, sentinel_, ref, preLetObserver,
                    postLetObserver, host, snapshotRef, graphRef >>
    /\ UNCHANGED << since, result >>
    /\ UNCHANGED rest

\* block() is entered, after the last before-callback has returned
BeginBlock ==
    /\ ~exc /\ stack # << >>
    /\ Top.phase = "before" /\ Top.i > Len(Top.arr)
    /\ stack' = SetTop(stack, [Top EXCEPT !.phase = "action",
                                          !.trace = Append(@, << "X", "" >>)])
    /\ host' = CASE Top.kind = "subscribe" ->
                      \* observableSubscribe.call(observable, preLetSubscriber)
                      [host EXCEPT ![Top.ref].started = TRUE]
                 [] Top.kind = "unsubscribe" ->
                      \* postLetUnsubscribe.call(postLetSubscriber)
                      [host EXCEPT ![Top.ref].postStopped = TRUE]
                 [] OTHER -> host
    \* subscriber.next(value), subscriber.error(error), subscriber.complete()
    /\ hist' = IF Top.kind \in {"next", "error", "complete"}
               THEN [hist EXCEPT !.delivered[Top.ref] = Append(@, << Top.kind, Top.value >>)]
               ELSE hist
    \* pluginsSubscription.unsubscribe() in the unsubscribe block
    /\ lets' = IF Top.kind = "unsubscribe"
               THEN [lets EXCEPT ![Top.ref].pluginsSubscription = FALSE]
               ELSE lets
    /\ UNCHANGED << tick_, plugins_, keptValues_, sentinel_, ref, preLetObserver,
                    postLetObserver, snapshotRef, graphRef, exc >>
    /\ UNCHANGED << since, result >>
    /\ UNCHANGED statics

\* block() returns and plugins_.forEach(after) begins
EndBlock ==
    /\ InAction
    /\ stack' = SetTop(stack, [Top EXCEPT !.phase = "after", !.i = 1,
                                          !.arr = plugins_, !.regA = plugins_])
    /\ ref' = CASE Top.kind = "subscribe" -> [ref EXCEPT ![Top.ref].subscription = TRUE]
                [] Top.kind = "unsubscribe" -> [ref EXCEPT ![Top.ref].unsubscribed = TRUE]
                [] OTHER -> ref
    /\ UNCHANGED << tick_, plugins_, keptValues_, sentinel_, preLetObserver,
                    postLetObserver, host, snapshotRef, graphRef, exc, hist >>
    /\ UNCHANGED << since, result >>
    /\ UNCHANGED rest

\* mutant: preLetSubscriber.unsubscribe returns after the notification, without
\* preLetUnsubscribe.call(preLetSubscriber)
ReturnOpen ==
    /\ ~exc /\ stack # << >>
    /\ Top.phase = "after" /\ Top.i > Len(Top.arr)
    /\ LET r == Top.ref
       IN  CASE Top.cont = "postUnsubscribe" /\ ~postLetObserver[r].unsubscribed ->
                  /\ postLetObserver' = [postLetObserver EXCEPT ![r].unsubscribed = TRUE]
                  /\ tick_' = Increment(tick_)
                  /\ stack' = Notify(Pop(stack), "unsubscribe", r, Undefined,
                                     "preLetUnsubscribe", tick_')
                  /\ hist' = [hist EXCEPT !.notifs = @ + 1, !.unsubs[r] = @ + 1]
                  /\ UNCHANGED << preLetObserver, host >>
             [] Top.cont = "preLetUnsubscribe" ->
                  /\ stack' = Pop(stack)
                  /\ preLetObserver' = [preLetObserver EXCEPT ![r].unsubscribed = TRUE]
                  /\ UNCHANGED << postLetObserver, host, tick_, hist >>
             [] OTHER ->
                  /\ stack' = Pop(stack)
                  /\ UNCHANGED << preLetObserver, postLetObserver, host, tick_, hist >>
    /\ UNCHANGED << plugins_, keptValues_, sentinel_, ref, snapshotRef, graphRef, exc >>
    /\ UNCHANGED << since, result >>
    /\ UNCHANGED rest

\* notify_ returns to its caller, which goes on:
\*   postUnsubscribe    Subscriber.complete / .error of the post-let subscriber
\*                      calls its unsubscribe (part_000:532-551)
\*   preLetUnsubscribe  preLetSubscriber.unsubscribe goes on with
\*                      preLetUnsubscribe.call(preLetSubscriber) (part_000:527)
Return ==
    /\ ~exc /\ stack # << >>
    /\ Top.phase = "after" /\ Top.i > Len(Top.arr)
    /\ LET r == Top.ref
       IN  CASE Top.cont = "postUnsubscribe" /\ ~postLetObserver[r].unsubscribed ->
                  /\ postLetObserver' = [postLetObserver EXCEPT ![r].unsubscribed = TRUE]
                  /\ tick_' = Increment(tick_)
                  /\ stack' = Notify(Pop(stack), "unsubscribe", r, Undefined,
                                     "preLetUnsubscribe", tick_')
                  /\ hist' = [hist EXCEPT !.notifs = @ + 1, !.unsubs[r] = @ + 1]
                  /\ UNCHANGED << preLetObserver, host >>
             [] Top.cont = "preLetUnsubscribe" ->
                  /\ stack' = Pop(stack)
                  /\ preLetObserver' = [preLetObserver EXCEPT ![r].unsubscribed = TRUE]
                  /\ host' = [host EXCEPT ![r].preStopped = TRUE]
                  /\ UNCHANGED << postLetObserver, tick_, hist >>
             [] OTHER ->
                  /\ stack' = Pop(stack)
                  /\ UNCHANGED << preLetObserver, postLetObserver, host, tick_, hist >>
    /\ UNCHANGED << plugins_, keptValues_, sentinel_, ref, snapshotRef, graphRef, exc >>
    /\ UNCHANGED << since, result >>
    /\ UNCHANGED rest

\* The exception leaves an activation (the one whose callback threw, then the
\* ones around it) and reaches the code that called it: the block or the callback
\* of the enclosing activation.  That code lets it pass, which abandons the
\* enclosing activation too, or handles it and goes on.
Propagate ==
    /\ exc /\ stack # << >>
    /\ stack' = Pop(stack)
    /\ UNCHANGED << tick_, plugins_, keptValues_, sentinel_, ref, preLetObserver,
                    postLetObserver, host, snapshotRef, graphRef, exc, hist >>
    /\ UNCHANGED << since, result >>
    /\ UNCHANGED rest

Handle ==
    /\ exc /\ stack # << >>
    /\ Top.status = "running"
    /\ exc' = FALSE
    /\ UNCHANGED << tick_, plugins_, keptValues_, sentinel_, ref, preLetObserver,
                    postLetObserver, host, snapshotRef, graphRef, stack, hist >>
    /\ UNCHANGED << since, result >>
    /\ UNCHANGED rest

\* The exception leaves the outermost notification into the code that raised it
Escape ==
    /\ exc /\ stack = << >>
    /\ exc' = FALSE
    /\ UNCHANGED << tick_, plugins_, keptValues_, sentinel_, ref, preLetObserver,
                    postLetObserver, host, snapshotRef, graphRef, stack, hist >>
    /\ UNCHANGED << since, result >>
    /\ UNCHANGED rest

\* ---------------------------------------------------------- plug and unplug
\* SpyCore.plug(plugin)
Plug(p) ==
    /\ AnyCtx
    /\ \A k \in 1 .. Len(plugins_) : plugins_[k] # p
    /\ plugins_' = Append(plugins_, p)
    \* pluginsSubject_.next(this.plugins_)
    /\ lets' = LetAll(lets, plugins_')
    /\ spy_' = IgnoredIn(lets, plugins_', spy_)
    /\ hist' = [hist EXCEPT !.plugs = @ + 1]
    /\ UNCHANGED << tick_, keptValues_, sentinel_, ref, preLetObserver, postLetObserver,
                    host, snapshotRef, graphRef, stack, exc >>
    /\ UNCHANGED << since, result >>
    /\ UNCHANGED << walk, subscribe, spies, ignoring >>

\* SpyCore.unplug(plugin)
Unplug(p) ==
    /\ AnyCtx
    /\ \E k \in 1 .. Len(plugins_) : plugins_[k] = p
    /\ plugins_' = Filter(plugins_, LAMBDA q : q # p)
    \* pluginsSubject_.next(this.plugins_)
    /\ lets' = LetAll(lets, plugins_')
    /\ spy_' = IgnoredIn(lets, plugins_', spy_)
    /\ hist' = [hist EXCEPT !.plugs = @ + 1]
    /\ UNCHANGED << tick_, keptValues_, sentinel_, ref, preLetObserver, postLetObserver,
                    host, snapshotRef, graphRef, stack, exc >>
    /\ UNCHANGED << since, result >>
    /\ UNCHANGED << walk, subscribe, spies, ignoring >>

\* -------------------------------------------------------------- snapshots
\* mutant: taking a snapshot advances the tick, as a notification does
TakeSnapshotTicking ==
    /\ HostCtx /\ CanSnapshot
    /\ tick_' = Increment(tick_)
    /\ since' = SnapshotAll(FALSE, 0)
    /\ hist' = [hist EXCEPT !.snaps = @ + 1]
    /\ UNCHANGED << plugins_, keptValues_, sentinel_, ref, preLetObserver,
                    postLetObserver, host, snapshotRef, graphRef, stack, exc, result >>
    /\ UNCHANGED rest

\* the host, or a handler it runs inside a block, calls snapshotAll() and keeps
\* the snapshot
TakeSnapshot ==
    /\ HostCtx /\ CanSnapshot
    /\ since' = SnapshotAll(FALSE, 0)
    /\ hist' = [hist EXCEPT !.snaps = @ + 1]
    /\ UNCHANGED << tick_, plugins_, keptValues_, sentinel_, ref, preLetObserver,
                    postLetObserver, host, snapshotRef, graphRef, stack, exc, result >>
    /\ UNCHANGED rest

\* snapshotAll({ since }) with the snapshot kept; all is history: what
\* snapshotAll() returns at the same moment
TakeSnapshotSince ==
    /\ HostCtx /\ CanSnapshot
    /\ since.taken
    /\ result' = [ taken |-> TRUE, sinceTick |-> since.tick,
                   snapshot |-> SnapshotAll(TRUE, since.tick),
                   all |-> SnapshotAll(FALSE, 0) ]
    /\ hist' = [hist EXCEPT !.snaps = @ + 1]
    /\ UNCHANGED << tick_, plugins_, keptValues_, sentinel_, ref, preLetObserver,
                    postLetObserver, host, snapshotRef, graphRef, stack, exc, since >>
    /\ UNCHANGED rest


\* -------------------------------------------------------------------- Next
\* The bounds of the dispatcher specification: the host starts a notification
\* while fewer than MaxTick were dispatched and fewer than MaxDepth are in
\* progress; what notify_'s callers go on to do by themselves is not bounded.
CanNotify == tick_ < MaxTick /\ Len(stack) < MaxDepth

\* observables and subscribers are numbered in the order they are first used
FreshOrUsed(used, all) == {x \in all : x <= Cardinality(used) + 1}
UsedObservables == {ref[r].observable : r \in Created}
UsedSubscribers == {ref[r].subscriber : r \in Created}

\* every subscribe call is for another observable, with another subscriber
Next ==
    \/ CanNotify /\ Subscribe(NextRef, NextRef)
    \/ CanNotify /\ \E r \in Refs : SourceNext(r)
    \/ CanNotify /\ \E r \in Refs : SourceComplete(r)
    \/ CanNotify /\ \E r \in Refs : SourceError(r)
    \/ Len(stack) < MaxDepth /\ \E r \in Refs : Unsubscribe(r)
    \/ Callback
    \/ hist.throws < MaxThrows /\ CallbackThrows
    \/ BeginBlock
    \/ EndBlock
    \/ Return
    \/ Propagate
    \/ Handle
    \/ Escape
    \/ hist.plugs < MaxPlugs /\ \E p \in {ProbeP, SnapshotP} : Plug(p)
    \/ hist.plugs < MaxPlugs /\ \E p \in {ProbeP, SnapshotP} : Unplug(p)

Spec == Init /\ [][Next]_vars

\* ------------------------------------------- the value-history specification
\* A spy with the default plugins and a configured keptValues; the host
\* subscribes, emits and unsubscribes, and no plugin is added or removed.
KeptValuesChoices == {-1, 0, 1, 2, DefaultKeptValues}

InitValues == \E keptValues \in KeptValuesChoices : InitWith(DefaultPlugins, keptValues)

CanNotifyValues == tick_ < MaxValueTick /\ Len(stack) < MaxDepth

NextValues ==
    \/ CanNotifyValues /\ Subscribe(NextRef, NextRef)
    \/ CanNotifyValues /\ \E r \in Refs : SourceNext(r)
    \/ Len(stack) < MaxDepth /\ \E r \in Refs : Unsubscribe(r)
    \/ Callback
    \/ BeginBlock
    \/ EndBlock
    \/ Return

SpecValues == InitValues /\ [][NextValues]_vars

\* ------------------------------------------------ the snapshot specification
\* A spy with the default plugins; subscribe calls share observables and
\* subscribers, and the host takes snapshots between and inside notifications.
CanNotifySnapshot == tick_ < MaxSnapshotTick /\ Len(stack) < MaxDepth

NextSnapshot ==
    \/ /\ CanNotifySnapshot
       /\ \E o \in FreshOrUsed(UsedObservables, Observables),
             b \in FreshOrUsed(UsedSubscribers, Subscribers) : Subscribe(o, b)
    \/ CanNotifySnapshot /\ \E r \in Refs : SourceNext(r)
    \/ CanNotifySnapshot /\ \E r \in Refs : SourceComplete(r)
    \/ CanNotifySnapshot /\ \E r \in Refs : SourceError(r)
    \/ Len(stack) < MaxDepth /\ \E r \in Refs : Unsubscribe(r)
    \/ Callback
    \/ BeginBlock
    \/ EndBlock
    \/ Return
    \/ hist.snaps < MaxSnapshots /\ TakeSnapshot
    \/ hist.snaps < MaxSnapshots /\ TakeSnapshotSince

\* keptValues is 1 (so that values are evicted within the bound) or the default
SnapshotKeptValues == {1, DefaultKeptValues}

InitSnapshot == \E keptValues \in SnapshotKeptValues : InitWith(DefaultPlugins, keptValues)

SpecSnapshot == InitSnapshot /\ [][NextSnapshot]_vars

\* ------------------------------------------------ the instance specification
\* The host constructs further SpyCore objects, runs ignore blocks, tears
\* instances down, subscribes and plugs a plugin that supplies a selector; no
\* source emits.  The dispatcher state is that of the first
\* instance; a subscribe call that the first instance does not instrument is
\* counted and not followed further.
dispatcher == << tick_, plugins_, keptValues_, sentinel_, ref, preLetObserver,
                 postLetObserver, host, snapshotRef, graphRef, stack, exc >>

\* new SpyCore(options) (part_000:54-110)
Construct(i) ==
    /\ HostCtx
    /\ spies[i] = "none"
    /\ IF spy_ # Undefined
       THEN \* throw new Error("Already spying on Observable.prototype.subscribe.")
            /\ spies' = [spies EXCEPT ![i] = "rejected"]
            /\ UNCHANGED << spy_, subscribe >>
       ELSE /\ spy_' = i
            /\ subscribe' = "coreSubscribe_"
            /\ spies' = [spies EXCEPT ![i] = "active"]
    /\ UNCHANGED << ignoring, walk, since, result, hist, lets >>
    /\ UNCHANGED dispatcher

\* spy.ignore(block) up to the call of block (part_000:150-153)
IgnoreBegin(i) ==
    /\ HostCtx
    /\ spies[i] \in {"active", "tornDown"}
    /\ spy_' = Undefined
    /\ ignoring' = Append(ignoring, [spy |-> i, depth |-> Len(stack)])
    /\ UNCHANGED << subscribe, spies, walk, since, result, hist, lets >>
    /\ UNCHANGED dispatcher

\* block has returned: finally { SpyCore.spy_ = this } (part_000:156-158)
IgnoreEnd ==
    /\ HostCtx
    /\ ignoring # << >>
    /\ Len(stack) = ignoring[Len(ignoring)].depth
    /\ spy_' = ignoring[Len(ignoring)].spy
    /\ ignoring' = SubSeq(ignoring, 1, Len(ignoring) - 1)
    /\ UNCHANGED << subscribe, spies, walk, since, result, hist, lets >>
    /\ UNCHANGED dispatcher

\* spy.teardown() (part_000:319-325) runs teardown_ (95-109) if it is set, and
\* clears it
Teardown(i) ==
    /\ HostCtx
    /\ spies[i] \in {"active", "tornDown"}
    /\ IF spies[i] = "active"
       THEN /\ plugins_' = IF i = 1 THEN << >> ELSE plugins_
            \* pluginsSubject_.next(this.plugins_)
            /\ lets' = IF i = 1 THEN LetAll(lets, << >>) ELSE lets
            /\ spy_' = Undefined
            /\ subscribe' = "observableSubscribe"
            /\ spies' = [spies EXCEPT ![i] = "tornDown"]
       ELSE UNCHANGED << plugins_, lets, spy_, subscribe, spies >>
    /\ hist' = [hist EXCEPT !.teardowns = @ + 1]
    /\ UNCHANGED << tick_, keptValues_, sentinel_, ref, preLetObserver, postLetObserver,
                    host, snapshotRef, graphRef, stack, exc >>
    /\ UNCHANGED << ignoring, walk, since, result >>

\* a subscribe call that reaches observableSubscribe directly (the entry point
\* is restored, or SpyCore.spy_ is undefined: part_000:343-346), or that another
\* instance instruments
SubscribeBypassed ==
    /\ HostCtx
    /\ subscribe # "coreSubscribe_" \/ spy_ # 1
    /\ hist' = [hist EXCEPT !.bypassed = @ + 1]
    /\ UNCHANGED << spy_, subscribe, spies, ignoring, walk, since, result, lets >>
    /\ UNCHANGED dispatcher

CanNotifySpy == tick_ < MaxSpyTick /\ Len(stack) < MaxDepth

NextSpy ==
    \/ \E i \in Spies : Construct(i)
    \/ Len(ignoring) < MaxIgnores /\ \E i \in Spies : IgnoreBegin(i)
    \/ IgnoreEnd
    \/ hist.teardowns < MaxTeardowns /\ \E i \in Spies : Teardown(i)
    \/ CanNotifySpy /\ Subscribe(NextRef, NextRef)
    \/ hist.bypassed < MaxBypassed /\ SubscribeBypassed
    \/ hist.plugs < MaxPlugs /\ Plug(LetP)
    \/ Callback
    \/ BeginBlock
    \/ EndBlock
    \/ Return

SpecSpy == InitWith(DefaultPlugins, DefaultKeptValues) /\ [][NextSpy]_vars

\* ------------------------------------------------ the rewiring specification
\* A spy without default plugins; the host, or a callback, plugs and unplugs
\* the two plugins that supply a selector while the host subscribes, emits and
\* unsubscribes.
CanNotifyLet == tick_ < MaxLetTick /\ Len(stack) < MaxDepth

NextLet ==
    \/ CanNotifyLet /\ Subscribe(NextRef, NextRef)
    \/ CanNotifyLet /\ \E r \in Refs : SourceNext(r)
    \/ Len(stack) < MaxDepth /\ \E r \in Refs : Unsubscribe(r)
    \/ Callback
    \/ BeginBlock
    \/ EndBlock
    \/ Return
    \/ hist.plugs < MaxLetPlugs /\ \E p \in {LetP, LetQ} : Plug(p)
    \/ hist.plugs < MaxLetPlugs /\ \E p \in {LetP, LetQ} : Unplug(p)

SpecLet == InitWith(<< >>, DefaultKeptValues) /\ [][NextLet]_vars

\* ------------------------------------------- the shared-source specification
\* A spy with the default plugins; the host subscribes to one shared observable
\* with a new subscriber each time and unsubscribes.  The source behind the
\* observable emits its one value while it is being connected, which is inside
\* the subscribe action of a subscription made when every earlier subscription's
\* source-side subscriber has been torn down; it never completes.
CanNotifyShared == tick_ < MaxSharedTick /\ Len(stack) < MaxDepth

SharedNext(r) ==
    /\ InAction /\ Top.kind = "subscribe" /\ Top.ref = r
    /\ hist.nexts[r] = 0
    /\ \A q \in Created \ {r} : host[q].preStopped
    /\ SourceNext(r)

NextShared ==
    \/ CanNotifyShared /\ Idle /\ Subscribe(1, NextRef)
    \/ CanNotifyShared /\ \E r \in Refs : SharedNext(r)
    \/ Len(stack) < MaxDepth /\ \E r \in Refs : Unsubscribe(r)
    \/ Callback
    \/ BeginBlock
    \/ EndBlock
    \/ Return

SpecShared == InitWith(DefaultPlugins, DefaultKeptValues) /\ [][NextShared]_vars

\* ----------------------------------------------- the traversal specification
\* getSubscriptionRefs_ as a function of the graph.  The graph is any one the
\* graph plugin can have built for up to MaxWalkRefs subscriptions: a
\* subscription is under the sentinel, or it is a source or a merge of one
\* subscribed earlier, and its rootSink is the end of its chain of sinks.
WalkRefs == 1 .. MaxWalkRefs

RECURSIVE RootSink(_, _)
RootSink(sinks, r) ==
    IF sinks[sinks[r]] = Undefined THEN sinks[r] ELSE RootSink(sinks, sinks[r])

GraphOf(n, sinks, edges) ==
    [r \in WalkRefs |->
        IF r > n THEN NoGraphRef
        ELSE IF sinks[r] = Undefined
        THEN [defined |-> TRUE, sink |-> Undefined, rootSink |-> Undefined, edge |-> "root"]
        ELSE [defined |-> TRUE, sink |-> sinks[r], edge |-> edges[r],
              rootSink |-> RootSink(sinks, r)]]

InitTraversal ==
    /\ InitSpy(DefaultPlugins, DefaultKeptValues)
    /\ sentinel_ = TRUE
    /\ \E n \in WalkRefs :
       \E sinks \in [WalkRefs -> {Undefined} \cup WalkRefs] :
       \E edges \in [WalkRefs -> {"merge", "source"}] :
          /\ \A r \in WalkRefs : sinks[r] < r
          /\ graphRef = GraphOf(n, sinks, edges)

\* SnapshotPlugin.getSubscriptionRefs_ is called
CollectRefs ==
    /\ ~walk.done
    /\ walk' = [ done |-> TRUE, refs |-> GetSubscriptionRefs,
                 calls |-> GetSubscriptionRefsCalls ]
    /\ UNCHANGED << tick_, plugins_, keptValues_, sentinel_, ref, preLetObserver,
                    postLetObserver, host, snapshotRef, graphRef, stack, exc, since,
                    result, hist >>
    /\ UNCHANGED << spy_, subscribe, spies, ignoring, lets >>

NextTraversal == CollectRefs

SpecTraversal == InitTraversal /\ [][NextTraversal]_vars

\* ================================================================== claims
Frames == {stack[k] : k \in 1 .. Len(stack)}

Befores(list) == [k \in 1 .. Len(list) |-> << "B", list[k] >>]
Afters(list)  == [k \in 1 .. Len(list) |-> << "A", list[k] >>]

\* the before-callbacks of the plugins registered, in order, then the block once,
\* then the after-callbacks of the plugins registered, in order
FullTrace(f) == f.trace = Befores(f.regB) \o << << "X", "" >> >> \o Afters(f.regA)

AboutToReturn(f) == f.status = "running" /\ f.phase = "after" /\ f.i > Len(f.arr)

\* C1: every notification dispatched (subscribe, next, error, complete,
\* unsubscribe) runs the before-callback of every registered plugin in
\* registration order, then the underlying action exactly once, then the
\* after-callback of every registered plugin in registration order.
C1_EveryNotification ==
    \A f \in Frames : (f.status = "thrown" \/ AboutToReturn(f)) => FullTrace(f)

\* C2: the ticks given to notifications are strictly increasing over nested and
\* interleaved notifications of any subscriptions, none is given twice, and the
\* counter never goes back: the n-th notification dispatched gets tick n.
C2_TicksStrictlyIncrease ==
    /\ tick_ = hist.notifs
    /\ \A k \in 1 .. Len(stack) :
          /\ stack[k].stamp >= 1 /\ stack[k].stamp <= tick_
          /\ \A j \in 1 .. k - 1 : stack[j].stamp < stack[k].stamp
    /\ (stack # << >> /\ Top.phase = "before" /\ Top.i = 1) => Top.stamp = tick_

C2_Witness ==
    /\ Len(stack) = 2 /\ stack[1].ref # stack[2].ref
    /\ stack[2].stamp > stack[1].stamp + 1

\* C3: every notification has one tick: the tick its after-callbacks read is the
\* tick its before-callbacks read, whether or not its action dispatched further
\* notifications.
C3_OneTickPerNotification ==
    \A f \in Frames :
        (~exc /\ f = Top /\ f.phase \in {"before", "after"} /\ f.i <= Len(f.arr))
            => tick_ = f.stamp

Suspended(f) ==
    \/ f.phase = "action"
    \/ f.phase \in {"before", "after"} /\ f.i > 1 /\ f.arr[f.i - 1] = ProbeP

C5_FailSoft ==
    /\ ~exc
    /\ \A f \in Frames : f.status = "running"

\* C6: the unsubscribe notification of a subscription is dispatched at most once,
\* and a request made after the first one (also from inside the unsubscribe
\* notification) leaves the tick, the plugins' records and the ref unchanged.
AlreadyRequested(r) == preLetObserver[r].unsubscribed \/ postLetObserver[r].unsubscribed

C6_UnsubscribeIdempotent ==
    [][\A r \in Refs :
          /\ hist'.unsubs[r] <= 1
          /\ (AlreadyRequested(r) /\ Unsubscribe(r)) =>
                UNCHANGED << tick_, plugins_, ref, snapshotRef, graphRef, sentinel_,
                             postLetObserver, stack, hist >>]_vars

\* a second request was made from inside the unsubscribe notification
C6_Witness ==
    \E f \in Frames :
        /\ f.kind = "unsubscribe" /\ f.status = "running"
        /\ ~preLetObserver[f.ref].completed /\ ~preLetObserver[f.ref].errored
        /\ host[f.ref].preStopped

\* C7: in the unsubscribe notification ref.unsubscribed is false during the
\* before-callbacks and true during the after-callbacks, and the snapshot record
\* is marked unsubscribed only by the after-callback, after the block.
C7_AfterSeesUnsubscribed ==
    /\ \A f \in Frames : f.kind = "unsubscribe" =>
          /\ f.phase = "before" => ~ref[f.ref].unsubscribed
          /\ f.phase = "after" => ref[f.ref].unsubscribed
          /\ (snapshotRef[f.ref].defined /\ snapshotRef[f.ref].unsubscribed) =>
                /\ f.phase = "after"
                /\ \E k \in 1 .. Len(f.trace) : f.trace[k] = << "A", SnapshotP >>
    /\ \A r \in Refs :
          (snapshotRef[r].defined /\ snapshotRef[r].unsubscribed) => ref[r].unsubscribed

C7_Witness ==
    \E f \in Frames :
        /\ f.kind = "unsubscribe" /\ f.phase = "after"
        /\ ref[f.ref].unsubscribed
        /\ snapshotRef[f.ref].defined /\ snapshotRef[f.ref].unsubscribed

\* the next notifications of r that SnapshotPlugin.beforeNext has been called for
Recorded(r) ==
    hist.nexts[r] -
    Cardinality({k \in 1 .. Len(stack) :
                    /\ stack[k].kind = "next" /\ stack[k].ref = r
                    /\ stack[k].phase = "before"
                    /\ \A j \in 1 .. Len(stack[k].trace) :
                          stack[k].trace[j] # << "B", SnapshotP >>})

\* the k-th next notification of a subscription carries the value k
ValuesOf(sr) == [k \in 1 .. Len(sr.values) |-> sr.values[k].value]

\* C8: once a next has been recorded the history holds at most keptValues
\* entries (none when keptValues is negative), the most recent values in delivery
\* order; with keptValues = 4 and 6 values delivered it holds the last 4, and
\* valuesFlushed is 2.
C8_HistoryBounded ==
    \A r \in Refs : snapshotRef[r].defined =>
        LET sr == snapshotRef[r]
            n  == Recorded(r)
            kept == Min(Max(keptValues_, 0), n)
        IN  /\ Len(sr.values) <= Max(keptValues_, 0)
            /\ ValuesOf(sr) = [k \in 1 .. kept |-> n - kept + k]
            /\ \A k \in 1 .. Len(sr.values) - 1 : sr.values[k].tick < sr.values[k + 1].tick
            /\ (keptValues_ = 4 /\ n = 6) =>
                  ValuesOf(sr) = << 3, 4, 5, 6 >> /\ sr.valuesFlushed = 2

C8_Witness ==
    \E r \in Refs :
        /\ snapshotRef[r].defined /\ keptValues_ = 4 /\ Recorded(r) = 6
        /\ Len(snapshotRef[r].values) = 4 /\ snapshotRef[r].valuesFlushed = 2

\* C9: for every keptValues and every sequence of events, valuesFlushed plus the
\* length of the history is the number of next notifications recorded for the
\* subscription.
C9_ExactAccounting ==
    \A r \in Refs : snapshotRef[r].defined =>
        snapshotRef[r].valuesFlushed + Len(snapshotRef[r].values) = Recorded(r)

\* C10: snapshotAll({since: S}) returns, in its three top-level maps, no entity
\* whose tick is at most S.tick; the entities removed are still held by the edges
\* and the member maps of the entities that remain, as in an unfiltered snapshot.
C10_SinceFilter ==
    result.taken =>
        LET R == result.snapshot
            A == result.all
        IN  /\ \A o \in DOMAIN R.observables : R.observables[o].tick > result.sinceTick
            /\ \A b \in DOMAIN R.subscribers : R.subscribers[b].tick > result.sinceTick
            /\ \A k \in DOMAIN R.subscriptions :
                  R.objs[R.subscriptions[k]].tick > result.sinceTick
            /\ R.objs = A.objs
            /\ \A o \in DOMAIN R.observables : R.observables[o] = A.observables[o]
            /\ \A b \in DOMAIN R.subscribers : R.subscribers[b] = A.subscribers[b]
            /\ \A k \in DOMAIN R.subscriptions : R.subscriptions[k] = A.subscriptions[k]

\* a subscription removed from the top-level map is still a member of an
\* observable that remains, next to a subscription that was not removed
C10_Witness ==
    /\ result.taken
    /\ LET R == result.snapshot
       IN  /\ \E o \in DOMAIN R.observables :
                \E k \in DOMAIN R.observables[o].subscriptions :
                    k \notin DOMAIN R.subscriptions
           /\ DOMAIN R.subscriptions # {}

\* the spy's own state and everything the plugins keep for the subscriptions
live == << tick_, plugins_, keptValues_, sentinel_, ref, preLetObserver,
           postLetObserver, host, snapshotRef, graphRef, stack, exc >>

Read(S) ==
    IF ~S.taken THEN S
    ELSE [S EXCEPT !.subscribers =
             [b \in DOMAIN S.subscribers |->
                 [S.subscribers[b] EXCEPT !.values = ReadArray(S.subscribers[b].values)]]]

\* C12: a returned snapshot is frozen: no later notification (next, error,
\* complete, unsubscribe, subscribe, eviction) changes what a reader finds in it:
\* its tick, its entity sets, the flags, ticks and edges of its subscription
\* snapshots, the values and valuesFlushed of its subscriber snapshots.
C12_Frozen ==
    [][/\ (since.taken /\ hist'.snaps = hist.snaps) =>
             since' = since /\ Read(since)' = Read(since)
       /\ (result.taken /\ hist'.snaps = hist.snaps) =>
             /\ result' = result
             /\ Read(result.snapshot)' = Read(result.snapshot)
             /\ Read(result.all)' = Read(result.all)]_vars

\* after the snapshot was taken a value of one of its subscriptions was evicted
\* and the subscription was unsubscribed: the snapshot still has the value and
\* the flag as they were
C12_Witness ==
    /\ since.taken
    /\ \E r \in Refs :
          /\ ref[r].subscription /\ r \in DOMAIN since.subscriptions
          /\ snapshotRef[r].unsubscribed /\ ~since.objs[r].unsubscribed
          /\ LET kept == ReadArray(since.subscribers[ref[r].subscriber].values)
             IN  /\ kept # << >>
                 /\ snapshotRef[r].valuesFlushed >
                        since.subscribers[ref[r].subscriber].valuesFlushed
                 /\ \A k \in 1 .. Len(snapshotRef[r].values) :
                        snapshotRef[r].values[k] # kept[1]

\* the subscription snapshots in a member map, by the ref each was made for
MembersOf(map) == {map[key] : key \in DOMAIN map}

\* C13: in every snapshot the tick of an observable snapshot and of a subscriber
\* snapshot is the greatest last-change tick of its member subscriptions; the
\* values of a subscriber snapshot are exactly the retained values of its member
\* subscriptions in order of non-decreasing tick, and its valuesFlushed is the sum
\* of theirs.
C13_Grouping ==
    (HostCtx /\ CanSnapshot) =>
        LET S == SnapshotAll(FALSE, 0)
        IN  /\ \A o \in DOMAIN S.observables :
                  S.observables[o].tick =
                      SetMax({S.objs[x].tick : x \in MembersOf(S.observables[o].subscriptions)})
            /\ \A b \in DOMAIN S.subscribers :
                  LET members == MembersOf(S.subscribers[b].subscriptions)
                      list == Ascending(members)
                      items == ReadArray(S.subscribers[b].values)
                  IN  /\ S.subscribers[b].tick = SetMax({S.objs[x].tick : x \in members})
                      /\ Range(items) = UNION {Range(snapshotRef[x].values) : x \in members}
                      /\ Len(items) = Sum([k \in 1 .. Len(list) |-> Len(snapshotRef[list[k]].values)])
                      /\ \A k \in 1 .. Len(items) - 1 : items[k].tick <= items[k + 1].tick
                      /\ S.subscribers[b].valuesFlushed =
                            Sum([k \in 1 .. Len(list) |-> snapshotRef[list[k]].valuesFlushed])

\* the snapshot object a call made for a live node, Undefined for no node and for
\* a node the call did not collect
Built(S, r) == IF r \in DOMAIN S.objs THEN r ELSE Undefined

\* C14: in every snapshot the sink, the rootSink and every entry of merges and
\* sources of a subscription snapshot is the object the same call built for the
\* live node's sink, rootSink, merge or source, and an edge to a node that was
\* not collected is left out.
C14_Relinked ==
    (HostCtx /\ CanSnapshot) =>
        LET S == SnapshotAll(FALSE, 0)
        IN  \A x \in DOMAIN S.objs :
                /\ S.objs[x].sink = Built(S, graphRef[x].sink)
                /\ S.objs[x].rootSink = Built(S, graphRef[x].rootSink)
                /\ MembersOf(S.objs[x].merges) =
                      {Built(S, c) : c \in Range(Edges(x, "merge"))} \ {Undefined}
                /\ MembersOf(S.objs[x].sources) =
                      {Built(S, c) : c \in Range(Edges(x, "source"))} \ {Undefined}

\* the subscriptions reachable from the sentinel along sources and merges
RECURSIVE Closure(_)
Closure(S) ==
    LET T == S \cup {c \in DOMAIN graphRef :
                        /\ graphRef[c].defined /\ graphRef[c].sink \in S
                        /\ graphRef[c].edge \in {"merge", "source"}}
    IN  IF T = S THEN S ELSE Closure(T)

Reachable == IF sentinel_ THEN Closure(Range(SentinelSources)) ELSE {}

HasEnded(r) == \E k \in 1 .. Len(hist.emitted[r]) : hist.emitted[r][k][1] \in {"error", "complete"}

\* C17: the notifications of one subscription are dispatched in lifecycle
\* order: subscribe first and once; next, error and complete only after it,
\* before any error or complete and before the unsubscribe; at most one of
\* error and complete; unsubscribe once, after subscribe.  Violated when a
\* before-callback of the unsubscribe notification throws: the subscribers are
\* then never closed and a later value is dispatched after the unsubscribe.
C17_LifecycleOrder ==
    [][hist'.notifs = hist.notifs + 1 =>
          LET f == Top'
              r == f.ref
          IN  CASE f.kind = "subscribe" -> ~ref[r].created
                [] f.kind \in {"next", "error", "complete"} ->
                       ref[r].created /\ ~HasEnded(r) /\ hist.unsubs[r] = 0
                [] f.kind = "unsubscribe" -> ref[r].created /\ hist.unsubs[r] = 0]_vars

\* ---------------------------------------------------------------------------
\* the notifications of r whose before-callbacks are still being called
Pending(r) ==
    {k \in 1 .. Len(stack) : /\ stack[k].ref = r
                             /\ stack[k].kind \in {"next", "error", "complete"}
                             /\ stack[k].phase = "before"
                             /\ stack[k].status = "running"}

\* C18: with no plugin supplying a transform the subscriber is handed what
\* the source handed to the instrumented subscription: every next, error and
\* complete once, with the same payload, in the same order.  Violated when a
\* before-callback throws: the value of that notification is never handed on.
C18_Transparent ==
    \A r \in Refs :
        LET emitted == hist.emitted[r]
            delivered == hist.delivered[r]
        IN  /\ Len(delivered) <= Len(emitted)
            /\ delivered = SubSeq(emitted, 1, Len(delivered))
            /\ Len(emitted) - Len(delivered) = Cardinality(Pending(r))

\* ---------------------------------------------------------------------------
\* the unsubscribe call of r has been made and has returned
Unsubscribed(r) ==
    /\ hist.unsubs[r] >= 1
    /\ \A k \in 1 .. Len(stack) : ~(stack[k].ref = r /\ stack[k].kind = "unsubscribe")

\* C19: subscribe A, unsubscribe A, subscribe B on one shared observable.
\* When an unsubscribe has returned, both instrumented subscribers of that
\* subscription are closed, the source-side one included; subscriptions of the
\* same observable are distinct entries of its snapshot; and each subscriber is
\* handed the value of the source once.
C19_Resubscribe ==
    /\ \A r \in Created :
          Unsubscribed(r) =>
             /\ host[r].postStopped /\ host[r].preStopped
             /\ preLetObserver[r].unsubscribed /\ ref[r].unsubscribed
    /\ \A r \in Created :
          /\ Len(hist.delivered[r]) <= 1
          /\ Pending(r) = {} => hist.delivered[r] = hist.emitted[r]
          /\ \A k \in 1 .. Len(hist.delivered[r]) : hist.delivered[r][k] = << "next", k >>
    /\ (HostCtx /\ CanSnapshot) =>
          LET S == SnapshotAll(FALSE, 0)
          IN  \A a \in Created :
                 ref[a].subscription =>
                    /\ a \in DOMAIN S.subscriptions /\ S.subscriptions[a] = a
                    /\ ref[a].observable \in DOMAIN S.observables
                    /\ a \in DOMAIN S.observables[ref[a].observable].subscriptions
                    /\ S.observables[ref[a].observable].subscriptions[a] = a
                    /\ S.objs[a].observable = 1

\* A was subscribed, handed the value and unsubscribed; then B was subscribed
\* to the same observable, handed the value and unsubscribed
C19_Witness ==
    /\ Idle /\ Created = {1, 2}
    /\ ref[1].observable = ref[2].observable /\ ref[1].subscriber # ref[2].subscriber
    /\ hist.delivered[1] = << << "next", 1 >> >> /\ hist.delivered[2] = << << "next", 1 >> >>
    /\ Unsubscribed(1) /\ Unsubscribed(2)
    /\ host[1].preStopped /\ host[2].preStopped
    /\ snapshotRef[2].tick > snapshotRef[1].tick
    /\ LET S == SnapshotAll(FALSE, 0)
       IN  DOMAIN S.observables[1].subscriptions = {1, 2}

\* ---------------------------------------------------------------------------
\* the instances that were constructed and not torn down
ActiveSpies == {i \in Spies : spies[i] = "active"}

\* C15: at most one spy instance is active; a construction while another
\* instance is active is rejected and leaves the active instance, the plugin
\* list, the tick and the patched entry point as they were.  Violated by a
\* construction inside an ignore block of the active instance.
C15_SingleSpy ==
    [][ /\ Cardinality(ActiveSpies') <= 1
        /\ \A i \in Spies :
              (spies[i] = "none" /\ spies'[i] # "none" /\ ActiveSpies # {}) =>
                 /\ spies'[i] = "rejected"
                 /\ UNCHANGED << spy_, subscribe, plugins_, tick_ >> ]_vars

\* ---------------------------------------------------------------------------
\* the chain of a subscription is the one built from the selectors of the
\* registered plugins, and its subject has no other observer
Rewired(r) ==
    IF Selectors(plugins_) # << >>
    THEN /\ lets[r].preLetSubject
         /\ lets[r].postLetSubscription.selectors = Selectors(plugins_)
         /\ lets[r].observers = << lets[r].postLetSubscription >>
    ELSE /\ ~lets[r].preLetSubject
         /\ lets[r].postLetSubscription = NoChain
         /\ lets[r].observers = << >>

\* C16: after plug or unplug every live subscription has the chain built from
\* the selectors of the registered plugins in registration order; a value the
\* source delivers is dispatched once, transformed by that chain (or as it is
\* when no plugin supplies a selector); no subscription ever has two chain
\* subscriptions; and plug and unplug leave the notifications in progress as
\* they are.
C16_Rewiring ==
    [][ /\ \A r \in Refs :
              /\ Len(lets'[r].observers) <= 1
              /\ (lets'[r].pluginsSubscription /\ ~preLetObserver'[r].unsubscribed) => Rewired(r)'
        /\ \A r \in Refs :
              hist'.nexts[r] = hist.nexts[r] + 1 =>
                 /\ hist'.notifs = hist.notifs + 1
                 /\ Len(stack') = Len(stack) + 1
                 /\ Top'.kind = "next" /\ Top'.ref = r
                 /\ Top'.value = Apply(Selectors(plugins_), hist.nexts[r] + 1)
        /\ plugins_' # plugins_ => stack' = stack ]_vars

\* a subscription was handed a value directly, then one through the chain of
\* the first plugin plugged, then one through the chain of both
C16_Witness ==
    \E r \in Refs :
       /\ plugins_ = << LetQ, LetP >>
       /\ hist.delivered[r] = << << "next", 1 >>, << "next", 4 >>, << "next", 16 >> >>
       /\ lets[r].postLetSubscription = [id |-> 2, selectors |-> << LetQ, LetP >>]

\* ---------------------------------------------------------------------------
\* the values a subscriber snapshot accounts for
Accounted(b) == b.valuesFlushed + Len(ReadArray(b.values))

\* the recorded state of a subscription differs between two snapshots
Changed(x, S, A) ==
    \/ A.objs[x].tick # S.objs[x].tick
    \/ A.objs[x].complete # S.objs[x].complete
    \/ A.objs[x].error # S.objs[x].error
    \/ A.objs[x].unsubscribed # S.objs[x].unsubscribed

InSubscribe == {r \in Range(GetSubscriptionRefs) : ~ref[r].subscription}

\* C22: a snapshot taken while subscribe actions are in progress holds one
\* entry per collected subscription in its subscriptions map and in the member
\* maps of its observables and subscribers, and the sink and root sink of every
\* subscription snapshot are those of its own subscription.  Violated with two
\* subscribe actions in progress: both refs have the key undefined.
C22_ReentrantSnapshot ==
    (HostCtx /\ CanSnapshot) =>
        LET S == SnapshotAll(FALSE, 0)
            made == DOMAIN S.objs
        IN  /\ made = Range(GetSubscriptionRefs)
            /\ Cardinality(DOMAIN S.subscriptions) = Cardinality(made)
            /\ MembersOf(S.subscriptions) = made
            /\ \A o \in DOMAIN S.observables :
                   MembersOf(S.observables[o].subscriptions) =
                      {r \in made : ref[r].observable = o}
            /\ \A b \in DOMAIN S.subscribers :
                   MembersOf(S.subscribers[b].subscriptions) =
                      {r \in made : ref[r].subscriber = b}
            /\ \A x \in made :
                   /\ S.objs[x].sink \in {Undefined, graphRef[x].sink}
                   /\ S.objs[x].rootSink \in {Undefined, graphRef[x].rootSink}

\* ---------------------------------------------------------------------------
\* the plugins whose before-callback (B) or after-callback (A) an activation
\* has called, in the order of the calls
Called(f, which) ==
    LET calls == SelectSeq(f.trace, LAMBDA c : c[1] = which)
    IN  [k \in 1 .. Len(calls) |-> calls[k][2]]

\* C23: a notification that has made all its callbacks made the
\* after-callbacks of exactly the plugins whose before-callbacks it made, in
\* the same order.  Violated when plug or unplug is called while the
\* notification is dispatched: notify_ reads plugins_ once for each forEach.
C23_Paired ==
    \A f \in Frames : AboutToReturn(f) => Called(f, "A") = Called(f, "B")

\* ---------------------------------------------------------------------------
\* the activation was left by an exception thrown by a callback of plugin p
ThrownBy(f, p) ==
    f.status = "thrown" /\ f.trace # << >> /\ f.trace[Len(f.trace)][2] = p

\* C24: no callback of the snapshot plugin throws, also for a subscription
\* made before the plugin was plugged, and snapshotAll finds a record for every
\* subscription it reaches.  Violated: the callbacks and snapshotAll read the
\* record that only beforeSubscribe creates.
C24_LatePlug ==
    /\ \A f \in Frames : ~ThrownBy(f, SnapshotP)
    /\ (HostCtx /\ InSeq(SnapshotP, plugins_)) => CanSnapshot

\* ---------------------------------------------------------------------------
\* every observable, subscriber and subscription snapshot of S has a tick that
\* is at most the tick of S
TicksWithin(S) ==
    /\ \A x \in DOMAIN S.objs : S.objs[x].tick <= S.tick
    /\ \A o \in DOMAIN S.observables : S.observables[o].tick <= S.tick
    /\ \A b \in DOMAIN S.subscribers : S.subscribers[b].tick <= S.tick

\* C25: the last-change tick recorded for a subscription is at most the global
\* tick and never decreases; a snapshot has the global tick of the moment it
\* is taken, and no snapshot inside it has a greater tick.
C25_TicksBounded ==
    [][ /\ \A r \in Refs :
              snapshotRef'[r].defined =>
                 /\ snapshotRef'[r].tick <= tick_'
                 /\ snapshotRef[r].defined => snapshotRef[r].tick <= snapshotRef'[r].tick
        /\ since'.taken => TicksWithin(since')
        /\ since' # since => since'.tick = tick_
        /\ result'.taken => TicksWithin(result'.snapshot) /\ TicksWithin(result'.all)
        /\ result' # result => result'.snapshot.tick = tick_ /\ result'.all.tick = tick_
      ]_vars

\* a kept snapshot holds a subscription that changed at the tick of the
\* snapshot and one that changed before, and the global tick has moved on
C25_Witness ==
    /\ since.taken /\ tick_ > since.tick
    /\ \E x, y \in DOMAIN since.objs :
          /\ since.objs[x].tick = since.tick
          /\ since.objs[y].tick < since.tick
          /\ since.objs[y].unsubscribed
          /\ snapshotRef[x].tick > since.tick

\* ---------------------------------------------------------------------------
\* C26: while an ignore block is in progress SpyCore.spy_ is undefined, so
\* that a subscribe call dispatches no notification, creates no ref and leaves
\* the tick as it is; when the outermost block has returned the instance that
\* ignored is in SpyCore.spy_ again.  Violated inside an outer block when a
\* nested ignore returns, by a direct call or by the one let makes.
C26_Ignored ==
    [][ /\ ignoring' # << >> => spy_' = Undefined
        /\ ignoring # << >> => /\ Created' = Created
                               /\ tick_' = tick_
                               /\ hist'.notifs = hist.notifs
        /\ (ignoring # << >> /\ ignoring' = << >>) => spy_' = ignoring[1].spy ]_vars

\* ---------------------------------------------------------------------------
\* a step of the innermost activation that calls a plugin's callback
CallbackStep == /\ Len(stack') = Len(stack) /\ stack # << >>
                /\ Top'.i = Top.i + 1 /\ Top'.phase = Top.phase

\* C27: teardown of an active instance empties its plugin list, restores the
\* subscribe entry point and clears SpyCore.spy_; afterwards no plugin that
\* was torn down is called; while no instance is active SpyCore.spy_ is
\* undefined, so that a new instance can be constructed; and teardown of an
\* instance that was torn down changes nothing.  Violated when teardown is
\* called inside an ignore block of the instance: ignore puts the instance
\* back into SpyCore.spy_.
C27_Teardown ==
    [][ /\ \A i \in Spies :
              (spies[i] = "active" /\ spies'[i] = "tornDown") =>
                 /\ spy_' = Undefined
                 /\ subscribe' = "observableSubscribe"
                 /\ i = 1 => plugins_' = << >>
        /\ (spies[1] = "tornDown" /\ CallbackStep) => InSeq(Top.arr[Top.i], plugins_)
        /\ {i \in Spies : spies'[i] = "active"} = {} =>
              /\ spy_' = Undefined
              /\ subscribe' = "observableSubscribe"
        /\ (hist'.teardowns = hist.teardowns + 1 /\ spies' = spies) =>
              UNCHANGED << spy_, subscribe, plugins_, tick_, lets, stack >> ]_vars

====
